---- MODULE Spec2Model ----
(***************************************************************************)
(* Model of the data-analysis backend: the cleaning service                *)
(* (services/data_cleaning.py), the statistics service                     *)
(* (services/statistics.py) and the request handlers of main.py that call  *)
(* them.                                                                   *)
(*                                                                         *)
(* A dataset is a sequence of rows; a row keeps its index label (idx) and  *)
(* one cell per column.  A cell is a tuple: <<>> is a null (NaN), <<p, q>> *)
(* is the number p/q in lowest terms with q > 0, <<s>> is the text s.      *)
(* Numbers are exact rationals: floating-point rounding is not modelled.   *)
(* Column x holds numbers and column c holds text; outlier detection is    *)
(* modelled for the numeric column.                                        *)
(*                                                                         *)
(* Spec runs one request over every input of the bounded input space;      *)
(* ConcSpec runs two requests at once over short uploads.  A handler is    *)
(* one step from its await of the upload to its return (it never suspends  *)
(* in between); the body of a FileResponse is read in a later step, and    *)
(* so is the rendering of a returned dict as JSON.  A column read from a    *)
(* file has a numeric dtype when it has rows and no cell holds text.        *)
(***************************************************************************)
EXTENDS Integers, Sequences, FiniteSets, TLC

\* ---------------------------------------------------------------- bounds
\* Longest list of freely chosen rows of an uploaded dataset.
MaxRows == 2
\* Number of equal rows (x = 0, c = "a") a dataset may start with: a short
\* and a long run, so that the IQR fences and the z-score cut-off of 3 are
\* both crossed (|z| > 3 needs at least 11 values).
SmallPad == 3
PadRows == 10
\* Length of a run of equal rows longer than the cap of 100 on a list of
\* reported indices.
LongPad == 101

\* ------------------------------------------------------------- rationals
NULL == <<>>

IsNull(v) == v = NULL

Abs(n) == IF n < 0 THEN -n ELSE n

RECURSIVE Gcd(_, _)
Gcd(a, b) == IF b = 0 THEN a ELSE Gcd(b, a % b)

Lcm(a, b) == (a * b) \div Gcd(a, b)

Reduce(p, q, g) == <<p \div g, q \div g>>

\* p/q in lowest terms, for q > 0
Rat(p, q) == Reduce(p, q, Gcd(Abs(p), q))

RInt(n) == <<n, 1>>
RAdd(a, b) == Rat(a[1] * b[2] + b[1] * a[2], a[2] * b[2])
RSub(a, b) == Rat(a[1] * b[2] - b[1] * a[2], a[2] * b[2])
RMul(a, b) == Rat(a[1] * b[1], a[2] * b[2])
RLess(a, b) == a[1] * b[2] < b[1] * a[2]
RLeq(a, b) == a[1] * b[2] <= b[1] * a[2]

\* ------------------------------------------------------------- sequences
RECURSIVE KeepFrom(_, _, _)
\* the elements of s at the positions i..Len(s) that are in keep, in order
KeepFrom(s, keep, i) ==
  IF i > Len(s) THEN <<>>
  ELSE (IF i \in keep THEN <<s[i]>> ELSE <<>>) \o KeepFrom(s, keep, i + 1)

\* boolean indexing: the elements of s whose position is in keep
KeepAt(s, keep) == KeepFrom(s, keep, 1)

RECURSIVE SumSeq(_)
SumSeq(s) == IF s = <<>> THEN 0 ELSE Head(s) + SumSeq(Tail(s))

RECURSIVE RSum(_)
RSum(s) == IF s = <<>> THEN RInt(0) ELSE RAdd(Head(s), RSum(Tail(s)))

RECURSIVE Insert(_, _)
Insert(v, s) ==
  IF s = <<>> THEN <<v>>
  ELSE IF RLeq(v, Head(s)) THEN <<v>> \o s
  ELSE <<Head(s)>> \o Insert(v, Tail(s))

RECURSIVE SortRat(_)
SortRat(s) == IF s = <<>> THEN <<>> ELSE Insert(Head(s), SortRat(Tail(s)))

\* ------------------------------------------------- pandas / scipy pieces
Columns == {"x", "c"}

\* select_dtypes(include=[np.number]): x holds numbers, c holds text
NumericColumns == {"x"}

\* df[column]: the column as a series of (index label, value)
Column(d, col) == [i \in 1..Len(d) |-> [idx |-> d[i].idx, v |-> d[i][col]]]

\* Series.dropna()
SeriesDropna(s) == SelectSeq(s, LAMBDA e : ~IsNull(e.v))

Values(s) == [i \in 1..Len(s) |-> s[i].v]

HasNull(r) == \E col \in Columns : IsNull(r[col])

Dropna_FirstNullRowOnly(d) ==
  KeepAt(d, {i \in 1..Len(d) :
               ~HasNull(d[i]) \/ \E j \in 1..(i - 1) : HasNull(d[j])})

\* DataFrame.dropna(): the rows with no null cell
Dropna(d) == SelectSeq(d, LAMBDA r : \A col \in Columns : ~IsNull(r[col]))

\* Series.mean() of the non-null values; NaN when there are none
Mean(vals) ==
  IF vals = <<>> THEN NULL ELSE RMul(RSum(vals), Rat(1, Len(vals)))

\* Series.median() of the non-null values; NaN when there are none
MedianSorted(srt) ==
  IF Len(srt) = 0 THEN NULL
  ELSE IF Len(srt) % 2 = 1 THEN srt[(Len(srt) + 1) \div 2]
  ELSE RMul(RAdd(srt[Len(srt) \div 2], srt[Len(srt) \div 2 + 1]), Rat(1, 2))

Median(vals) == MedianSorted(SortRat(vals))

\* Series.quantile(num/den), linear interpolation between the sorted values
\* around position (n - 1) * num / den; NaN when there are none
Interpolate(srt, lo, rem, den) ==
  IF rem = 0 THEN srt[lo + 1]
  ELSE RAdd(srt[lo + 1], RMul(Rat(rem, den), RSub(srt[lo + 2], srt[lo + 1])))

QuantileSorted(srt, num, den) ==
  IF Len(srt) = 0 THEN NULL
  ELSE Interpolate(srt, ((Len(srt) - 1) * num) \div den,
                   ((Len(srt) - 1) * num) % den, den)

Quantile(vals, num, den) == QuantileSorted(SortRat(vals), num, den)

\* DataFrame.fillna(fill) on the numeric columns: fill[col] is the value for
\* column col; a NaN fill value leaves the nulls as they are
Fillna(d, fill) ==
  [i \in 1..Len(d) |->
     [f \in DOMAIN d[i] |->
        IF f \in NumericColumns /\ IsNull(d[i][f]) THEN fill[f] ELSE d[i][f]]]

ColumnMeans_NullsAsZero(d) ==
  [col \in NumericColumns |->
     IF Len(d) = 0 THEN NULL
     ELSE RMul(RSum(Values(SeriesDropna(Column(d, col)))), Rat(1, Len(d)))]

ColumnMeans(d) ==
  [col \in NumericColumns |-> Mean(Values(SeriesDropna(Column(d, col))))]

ColumnMedians(d) ==
  [col \in NumericColumns |-> Median(Values(SeriesDropna(Column(d, col))))]

\* the cells of a row, without its index label
Cells(r) == [col \in Columns |-> r[col]]

\* DataFrame.duplicated(): positions of the rows equal (NaN = NaN) to an
\* earlier row
Duplicated(d) ==
  {i \in 1..Len(d) : \E j \in 1..(i - 1) : Cells(d[j]) = Cells(d[i])}

\* DataFrame.duplicated(keep=False): every row of a group of equal rows
DuplicatedAll(d) ==
  {i \in 1..Len(d) : \E j \in 1..Len(d) : j # i /\ Cells(d[j]) = Cells(d[i])}

DropDuplicates_KeepLast(d) ==
  KeepAt(d, {i \in 1..Len(d) :
               ~\E j \in (i + 1)..Len(d) : Cells(d[j]) = Cells(d[i])})

\* DataFrame.drop_duplicates()
DropDuplicates(d) == KeepAt(d, (1..Len(d)) \ Duplicated(d))

\* scipy.stats.zscore (ddof = 0), squared: z_i^2 = (x_i - mean)^2 / var.
\* With w the values scaled to integers by a common denominator, W their
\* sum and n their number, z_i^2 = n (n w_i - W)^2 / SUM_j (n w_j - W)^2.
\* A constant input (one value included) gives NaN for every element.
RECURSIVE LcmDen(_)
LcmDen(vals) ==
  IF vals = <<>> THEN 1 ELSE Lcm(Head(vals)[2], LcmDen(Tail(vals)))

Scaled(vals, L) == [i \in 1..Len(vals) |-> vals[i][1] * (L \div vals[i][2])]

SquaredDev(w, n, W) == [i \in 1..n |-> (n * w[i] - W) * (n * w[i] - W)]

ZRatio(n, dev, ss) ==
  [i \in 1..n |-> IF ss = 0 THEN NULL ELSE Rat(n * dev[i], ss)]

ZFromDev(n, dev) == ZRatio(n, dev, SumSeq(dev))

ZFromScaled(w) == ZFromDev(Len(w), SquaredDev(w, Len(w), SumSeq(w)))

ZscoreSquared(vals) == ZFromScaled(Scaled(vals, LcmDen(vals)))

\* comparisons of floats: every comparison with NaN is False
Gt(a, b) == ~IsNull(a) /\ ~IsNull(b) /\ RLess(b, a)
Lt(a, b) == ~IsNull(a) /\ ~IsNull(b) /\ RLess(a, b)
Ge(a, b) == ~IsNull(a) /\ ~IsNull(b) /\ RLeq(b, a)
Le(a, b) == ~IsNull(a) /\ ~IsNull(b) /\ RLeq(a, b)

\* lower and upper IQR fences: q1 - 1.5 * iqr and q3 + 1.5 * iqr
FencesAt(q1, q3, iqr) ==
  [lower |-> RSub(q1, RMul(Rat(3, 2), iqr)),
   upper |-> RAdd(q3, RMul(Rat(3, 2), iqr))]

Fences(q1, q3) ==
  IF IsNull(q1) THEN [lower |-> NULL, upper |-> NULL]
  ELSE FencesAt(q1, q3, RSub(q3, q1))

IqrBounds(vals) == Fences(Quantile(vals, 1, 4), Quantile(vals, 3, 4))

\* ------------------------------------------------------ cleaning service
\* Python's None, and the truth value of an optional string
None == "<None>"
Truthy(s) == s # None /\ s # ""

\* a report field the selected method does not produce
Absent == <<"absent">>

\* outlier_threshold of detect_outliers and the literal of clean_dataset
OutlierThreshold == 3
CleanThreshold == 3
\* [:100] and head(10)
IndexCap == 100
ValueCap == 10

Take(s, n) == IF Len(s) <= n THEN s ELSE SubSeq(s, 1, n)

Ok(v) == [err |-> "", val |-> v]
\* an exception of the given kind, raised with the frames as v
Raise(kind, v) == [err |-> kind, val |-> v]

\* positions of data (a null-dropped series) flagged by detect_outliers
AboveThreshold(z2) ==
  {i \in 1..Len(z2) : Gt(z2[i], RInt(OutlierThreshold * OutlierThreshold))}

ZscoreOutliers(data) == AboveThreshold(ZscoreSquared(Values(data)))

OutsideFences_Inclusive(data, b) ==
  {i \in 1..Len(data) : Le(data[i].v, b.lower) \/ Ge(data[i].v, b.upper)}

OutsideFences(data, b) ==
  {i \in 1..Len(data) : Lt(data[i].v, b.lower) \/ Gt(data[i].v, b.upper)}

IqrOutliers(data) == OutsideFences(data, IqrBounds(Values(data)))

\* float((outliers.sum() / len(data)) * 100): 0/0 is NaN
OutlierPercentage(count, n) == IF n = 0 THEN NULL ELSE Rat(100 * count, n)

Report(method, n, flagged, threshold, bounds) ==
  [method |-> method,
   threshold |-> threshold,
   lower_bound |-> bounds.lower,
   upper_bound |-> bounds.upper,
   total_outliers |-> Len(flagged),
   outlier_percentage |-> OutlierPercentage(Len(flagged), n),
   outlier_indices |-> Take([i \in 1..Len(flagged) |-> flagged[i].idx], IndexCap),
   outlier_values |-> Take(Values(flagged), ValueCap)]

OutlierInfo(method, data, outliers, threshold, bounds) ==
  Report(method, Len(data), KeepAt(data, outliers), threshold, bounds)

DetectOn_DefaultsToIqr(data, method) ==
  IF method = "zscore"
  THEN Ok(OutlierInfo("Z-Score", data, ZscoreOutliers(data),
                      OutlierThreshold, [lower |-> Absent, upper |-> Absent]))
  ELSE Ok(OutlierInfo("IQR", data, IqrOutliers(data),
                      Absent, IqrBounds(Values(data))))

DetectOn(data, method) ==
  IF method = "zscore"
  THEN Ok(OutlierInfo("Z-Score", data, ZscoreOutliers(data),
                      OutlierThreshold, [lower |-> Absent, upper |-> Absent]))
  ELSE IF method = "iqr"
  THEN Ok(OutlierInfo("IQR", data, IqrOutliers(data),
                      Absent, IqrBounds(Values(data))))
  ELSE Raise("InvalidMethod", <<>>)

\* DataCleaningService.detect_outliers(df, column, method)
DetectOutliers(d, column, method) ==
  DetectOn(SeriesDropna(Column(d, column)), method)

\* df.index.tolist()
IndexList(d) == [i \in 1..Len(d) |-> d[i].idx]

\* isnull().sum() of one column
MissingCount(d, col) == Cardinality({i \in 1..Len(d) : IsNull(d[i][col])})

RECURSIVE SumCounts(_, _)
\* missing_count.sum() over the columns cols
SumCounts(d, cols) ==
  IF cols = {} THEN 0
  ELSE MissingCount(d, CHOOSE col \in cols : TRUE)
         + SumCounts(d, cols \ {CHOOSE col \in cols : TRUE})

\* (isnull().sum() / len(df)) * 100: 0/0 is NaN
MissingPercent(count, n) == IF n = 0 THEN NULL ELSE Rat(100 * count, n)

MissingEntry(d, col) ==
  [count |-> MissingCount(d, col),
   percentage |-> MissingPercent(MissingCount(d, col), Len(d))]

MissingEntries_AllColumns(d) == [col \in Columns |-> MissingEntry(d, col)]

\* columns_with_missing: an entry for the columns with missing_count > 0
MissingEntries(d) ==
  [col \in {c \in Columns : MissingCount(d, c) > 0} |-> MissingEntry(d, col)]

\* DataCleaningService.detect_missing_values(df)
DetectMissingValues(d) ==
  [total_missing |-> SumCounts(d, Columns),
   total_cells |-> Len(d) * Cardinality(Columns),
   columns_with_missing |-> MissingEntries(d)]

\* the [:100] of duplicate_indices
DuplicateIndexCap == 100

\* float((total_duplicates / len(df)) * 100) if len(df) > 0 else 0
DuplicatePercentage(count, n) == IF n > 0 THEN Rat(100 * count, n) ELSE RInt(0)

DuplicateIndices_LaterOnly(d) ==
  Take(IndexList(KeepAt(d, Duplicated(d))), DuplicateIndexCap)

\* df[df.duplicated(keep=False)].index.tolist()[:100]
DuplicateIndices(d) ==
  Take(IndexList(KeepAt(d, DuplicatedAll(d))), DuplicateIndexCap)

\* DataCleaningService.detect_duplicates(df)
DetectDuplicates(d) ==
  [total_duplicates |-> Cardinality(Duplicated(d)),
   total_rows |-> Len(d),
   duplicate_percentage |-> DuplicatePercentage(Cardinality(Duplicated(d)), Len(d)),
   duplicate_indices |-> DuplicateIndices(d)]

\* A frame variable of clean_dataset: caller is the caller's dataset, cur the
\* dataset cleaned_df names, alias whether both are one object.
Param(d) == [caller |-> d, cur |-> d, alias |-> TRUE]

DfCopy_SameObject(s) == s

\* cleaned_df = df.copy()
DfCopy(s) == [caller |-> s.caller, cur |-> s.cur, alias |-> FALSE]

\* cleaned_df = <a new frame>: dropna(), drop_duplicates(), boolean indexing
Rebind(s, d) == [caller |-> s.caller, cur |-> d, alias |-> FALSE]

\* cleaned_df[cols] = ...: writes into the object cleaned_df names
SetItem(s, d) ==
  [caller |-> IF s.alias THEN d ELSE s.caller, cur |-> d, alias |-> s.alias]

\* stage 1: handle_missing; any other value takes no branch
HandleMissing(s, handle_missing) ==
  IF handle_missing = "drop" THEN Rebind(s, Dropna(s.cur))
  ELSE IF handle_missing = "mean"
  THEN SetItem(s, Fillna(s.cur, ColumnMeans(s.cur)))
  ELSE IF handle_missing = "median"
  THEN SetItem(s, Fillna(s.cur, ColumnMedians(s.cur)))
  ELSE s

\* stage 2: remove_duplicates
RemoveDuplicates(s, remove_duplicates) ==
  IF remove_duplicates THEN Rebind(s, DropDuplicates(s.cur)) ELSE s

\* positions of data (a null-dropped series) where outlier_mask is True
WithinThreshold(z2) ==
  {i \in 1..Len(z2) : Le(z2[i], RInt(CleanThreshold * CleanThreshold))}

ZscoreMask(data) == WithinThreshold(ZscoreSquared(Values(data)))

InsideFences(data, b) ==
  {i \in 1..Len(data) : Ge(data[i].v, b.lower) /\ Le(data[i].v, b.upper)}

IqrMask(data) == InsideFences(data, IqrBounds(Values(data)))

\* full_mask = True everywhere; full_mask[data.index] = outlier_mask;
\* the positions of d that full_mask keeps
FullMask(d, data, outlier_mask) ==
  {i \in 1..Len(d) :
     \A k \in 1..Len(data) : data[k].idx = d[i].idx => k \in outlier_mask}

\* cleaned_df = cleaned_df[full_mask]
ApplyMask(s, data, outlier_mask) ==
  Rebind(s, KeepAt(s.cur, FullMask(s.cur, data, outlier_mask)))

FilterOutliers(s, data, outlier_method) ==
  IF outlier_method = "zscore" THEN Ok(ApplyMask(s, data, ZscoreMask(data)))
  ELSE IF outlier_method = "iqr" THEN Ok(ApplyMask(s, data, IqrMask(data)))
  ELSE Raise("InvalidMethod", s)

\* stage 3: remove_outliers
RemoveOutliers(s, remove_outliers, outlier_column, outlier_method) ==
  IF remove_outliers /\ Truthy(outlier_column)
  THEN IF outlier_column \notin Columns THEN Raise("ColumnNotFound", s)
       ELSE FilterOutliers(s, SeriesDropna(Column(s.cur, outlier_column)),
                           outlier_method)
  ELSE Ok(s)

\* what the call leaves: err, the returned frame (out, and whether it is
\* the caller's object) and the caller's dataset
CleanResult(r) ==
  [err |-> r.err,
   out |-> IF r.err = "" THEN r.val.cur ELSE <<>>,
   alias |-> r.err = "" /\ r.val.alias,
   caller |-> r.val.caller]

\* the three stages in the order of the code
Stage1(d, o) == HandleMissing(DfCopy(Param(d)), o.handle_missing)

Stage2_DuplicatesFirst(d, o) ==
  HandleMissing(RemoveDuplicates(DfCopy(Param(d)), o.remove_duplicates), o.handle_missing)

Stage2(d, o) == RemoveDuplicates(Stage1(d, o), o.remove_duplicates)
Stage3(d, o) ==
  RemoveOutliers(Stage2(d, o), o.remove_outliers, o.outlier_column, o.outlier_method)

\* DataCleaningService.clean_dataset(df, ...) with the options o
CleanDataset(d, o) == CleanResult(Stage3(d, o))

\* ---------------------------------------------------- statistics service
\* a number that is not rational is kept as a term: <<"sqrt", p, q>> is the
\* root of p/q, <<"skew", n, s3, s2>> is sqrt(n) * s3 / s2^1.5
IsNumber(v) == Len(v) = 2

\* pd.api.types.is_numeric_dtype of a column as read_csv types it: float64
\* or int64 when every cell is a number or empty, object when a cell holds
\* text and when the frame has no row
IsNumericDtype(d, col) ==
  Len(d) > 0 /\ \A i \in 1..Len(d) : IsNull(d[i][col]) \/ IsNumber(d[i][col])

\* the values minus n times their mean, scaled to integers: n w_i - W
Centered(w, n, W) == [i \in 1..n |-> n * w[i] - W]

CenteredValues(vals) ==
  Centered(Scaled(vals, LcmDen(vals)), Len(vals),
           SumSeq(Scaled(vals, LcmDen(vals))))

PowerSum2(c) == SumSeq([i \in 1..Len(c) |-> c[i] * c[i]])
PowerSum3(c) == SumSeq([i \in 1..Len(c) |-> c[i] * c[i] * c[i]])
PowerSum4(c) == SumSeq([i \in 1..Len(c) |-> c[i] * c[i] * c[i] * c[i]])

\* Series.var() (ddof = 1): NaN for one value
SampleVariance(n, s2, L) ==
  IF n = 1 THEN NULL ELSE Rat(s2, n * n * L * L * (n - 1))

Variance(vals) ==
  SampleVariance(Len(vals), PowerSum2(CenteredValues(vals)), LcmDen(vals))

Sqrt(v) ==
  IF IsNull(v) THEN NULL
  ELSE IF v[1] = 0 THEN RInt(0)
  ELSE <<"sqrt", v[1], v[2]>>

\* Series.std() (ddof = 1)
StdDev(vals) == Sqrt(Variance(vals))

\* scipy.stats.skew: m3 / m2^1.5, NaN when the values are all equal
SkewOf(n, s3, s2) ==
  IF s2 = 0 THEN NULL
  ELSE IF s3 = 0 THEN RInt(0)
  ELSE <<"skew", n, s3, s2>>

Skewness(vals) ==
  SkewOf(Len(vals), PowerSum3(CenteredValues(vals)), PowerSum2(CenteredValues(vals)))

\* scipy.stats.kurtosis (Fisher): m4 / m2^2 - 3, NaN when the values are
\* all equal
KurtosisOf(n, s4, s2) ==
  IF s2 = 0 THEN NULL ELSE RSub(Rat(n * s4, s2 * s2), RInt(3))

Kurtosis(vals) ==
  KurtosisOf(Len(vals), PowerSum4(CenteredValues(vals)), PowerSum2(CenteredValues(vals)))

\* stats.shapiro raises ValueError below three values; above 5000 values
\* the Kolmogorov-Smirnov test is used instead
ShapiroMin == 3
ShapiroMax == 5000

\* the test's statistic and p-value are not computed: the record names the
\* test and the sample they are a function of
NormalityTest(vals) ==
  [test |-> IF Len(vals) <= ShapiroMax THEN "Shapiro-Wilk"
            ELSE "Kolmogorov-Smirnov",
   sample |-> vals]

\* number of points of np.linspace(min, max, 100)
CurvePoints == 100

\* stats.norm.pdf / cdf over the grid: NaN at every point when the scale
\* is 0 or NaN, else a list of numbers (kept as a term)
Curve(lo, hi, mean, std) ==
  [x |-> [from |-> lo, to |-> hi, points |-> CurvePoints],
   y |-> IF IsNull(std) \/ std = RInt(0) THEN NULL
         ELSE <<"norm", mean, std>>]

NormalDistribution(lo, hi, mean, std) ==
  [mean |-> mean, std_dev |-> std,
   pdf_values |-> Curve(lo, hi, mean, std),
   cdf_values |-> Curve(lo, hi, mean, std)]

NoNumericData == [error |-> "No numeric data available"]

NumericRecord(vals, srt) ==
  [type |-> "numeric",
   count |-> Len(vals),
   mean |-> Mean(vals),
   median |-> MedianSorted(srt),
   std_dev |-> StdDev(vals),
   variance |-> Variance(vals),
   min |-> srt[1],
   max |-> srt[Len(srt)],
   q1 |-> QuantileSorted(srt, 1, 4),
   q3 |-> QuantileSorted(srt, 3, 4),
   iqr |-> RSub(QuantileSorted(srt, 3, 4), QuantileSorted(srt, 1, 4)),
   skewness |-> Skewness(vals),
   kurtosis |-> Kurtosis(vals),
   normality_test |-> NormalityTest(vals),
   normal_distribution |->
     NormalDistribution(srt[1], srt[Len(srt)], Mean(vals), StdDev(vals))]

\* StatisticsService._numeric_statistics on the non-null values
NumericStatistics(vals) ==
  IF Len(vals) = 0 THEN Ok(NoNumericData)
  ELSE IF Len(vals) < ShapiroMin THEN Raise("ValueError", <<>>)
  ELSE Ok(NumericRecord(vals, SortRat(vals)))

\* Python's None in a JSON body
JsonNull == <<"null">>

ValueSet(vals) == {vals[i] : i \in 1..Len(vals)}

\* Series.value_counts()
CountOf(vals, v) == Cardinality({i \in 1..Len(vals) : vals[i] = v})

\* the values whose count is the highest
Modes(vals) ==
  {v \in ValueSet(vals) : \A u \in ValueSet(vals) : CountOf(vals, u) <= CountOf(vals, v)}

\* value_counts.head(10)
TopCap == 10

\* the TopCap most frequent values (all of them when there are no more)
TopValues(vals) ==
  IF Cardinality(ValueSet(vals)) <= TopCap THEN ValueSet(vals)
  ELSE CHOOSE S \in SUBSET ValueSet(vals) :
         /\ Cardinality(S) = TopCap
         /\ \A v \in S, u \in ValueSet(vals) \ S : CountOf(vals, u) <= CountOf(vals, v)

\* StatisticsService._categorical_statistics on the non-null values;
\* mode()[0] is one of the most frequent values
CategoricalStatistics(vals) ==
  [type |-> "categorical",
   count |-> Len(vals),
   unique_values |-> Cardinality(ValueSet(vals)),
   most_common |-> IF vals = <<>> THEN JsonNull ELSE CHOOSE v \in Modes(vals) : TRUE,
   value_counts |-> [v \in TopValues(vals) |-> CountOf(vals, v)],
   mode_frequency |-> IF vals = <<>> THEN 0
                      ELSE CountOf(vals, CHOOSE v \in Modes(vals) : TRUE)]

\* the entry of one column: col_data = df[col].dropna(), then by dtype
ColumnStatistics(d, col) ==
  IF IsNumericDtype(d, col)
  THEN NumericStatistics(Values(SeriesDropna(Column(d, col))))
  ELSE Ok(CategoricalStatistics(Values(SeriesDropna(Column(d, col)))))

\* the result dictionary over the columns cols; the first exception ends
\* the call
StatisticsOver(d, cols) ==
  IF \E col \in cols : ColumnStatistics(d, col).err # ""
  THEN Raise("ValueError", <<>>)
  ELSE Ok([col \in cols |-> ColumnStatistics(d, col).val])

\* StatisticsService.calculate_statistics(df, column)
CalculateStatistics(d, column) ==
  IF Truthy(column)
  THEN IF column \notin Columns THEN Raise("ColumnNotFound", <<>>)
       ELSE StatisticsOver(d, {column})
  ELSE StatisticsOver(d, Columns)

\* ------------------------------------------------------------ file layer
\* FileHandler.load_file: None (none = TRUE) for an unsupported extension,
\* ValueError for content that does not parse, else the frame with a fresh
\* RangeIndex
LoadFile(upload) ==
  IF upload.kind = "unparseable"
  THEN [err |-> "ReadError", none |-> FALSE, val |-> <<>>]
  ELSE IF upload.kind = "unsupported"
  THEN [err |-> "", none |-> TRUE, val |-> <<>>]
  ELSE [err |-> "", none |-> FALSE,
        val |-> [i \in 1..Len(upload.rows) |->
                   [idx |-> i - 1, x |-> upload.rows[i].x, c |-> upload.rows[i].c]]]

\* to_csv(index=False): the cells without the index labels, a null as an
\* empty field
EmptyField == <<"">>
ToCsv(d) ==
  [i \in 1..Len(d) |->
     [col \in Columns |-> IF IsNull(d[i][col]) THEN EmptyField ELSE d[i][col]]]

\* to_dict(orient="records"): one mapping per row, without the index label
ToRecords(d) == [i \in 1..Len(d) |-> Cells(d[i])]

\* ------------------------------------------------------------- requests
Requests == {1, 2}

VARIABLES
  req,         \* req[r]: endpoint, upload and query options of request r
  pc,          \* pc[r]: where the handler of request r stands
  df,          \* df[r]: the handler's frame df, as the service call left it
  cleaned_df,  \* cleaned_df[r]: the frame clean_dataset returned to r
  aliased,     \* aliased[r]: cleaned_df[r] and df[r] are one object
  resp,        \* resp[r]: the response of request r
  disk,        \* the file cleaned_data.csv: whether it exists, and its content
  sent         \* sent[r]: what the framework wrote to the client of r

vars == <<req, pc, df, cleaned_df, aliased, resp, disk, sent>>

\* a frame variable not bound (yet): df and cleaned_df are read only where
\* the response says the handler bound them
NoFrame == <<>>

NoResponse == [status |-> 0, body |-> <<>>]
ClientError(detail) == [status |-> 400, body |-> [detail |-> detail]]
Success(body) == [status |-> 200, body |-> body]

DefaultOpts ==
  [handle_missing |-> "drop", remove_duplicates |-> TRUE,
   remove_outliers |-> FALSE, outlier_column |-> None,
   outlier_method |-> "zscore", column |-> None, method |-> "zscore"]

\* the inputs
XCells == {NULL, RInt(0), RInt(1)}
CCells == {NULL, <<"a">>}
RowKinds == [x : XCells, c : CCells]
PadRow == [x |-> RInt(0), c |-> <<"a">>]
Pad(k) == [i \in 1..k |-> PadRow]
FreeRows == UNION {[1..n -> RowKinds] : n \in 0..MaxRows}
Datasets == {Pad(k) \o rows : k \in {0, SmallPad, PadRows}, rows \in FreeRows}

Uploads ==
  {[kind |-> "csv", rows |-> d] : d \in Datasets}
    \cup {[kind |-> k, rows |-> <<>>] : k \in {"unsupported", "unparseable"}}

\* datasets of more than a hundred equal rows, then at most one free row
LongUploads ==
  {[kind |-> "csv", rows |-> Pad(LongPad) \o rows] :
     rows \in {fr \in FreeRows : Len(fr) <= 1}}

Policies == {"drop", "mean", "median", "mode"}
Methods == {"zscore", "iqr", "mad"}
ColumnNames == {None, "", "x", "y"}

\* with remove_outliers off the column and the method are never read: they
\* stay at the endpoint's defaults
CleanOpts ==
  {[DefaultOpts EXCEPT !.handle_missing = hm, !.remove_duplicates = rd] :
     hm \in Policies, rd \in BOOLEAN}
    \cup {[DefaultOpts EXCEPT !.handle_missing = hm, !.remove_duplicates = rd,
                              !.remove_outliers = TRUE, !.outlier_column = oc,
                              !.outlier_method = om] :
             hm \in Policies, rd \in BOOLEAN, oc \in ColumnNames, om \in Methods}

\* column of POST /api/statistics
StatisticsOpts ==
  {[DefaultOpts EXCEPT !.column = col] : col \in ColumnNames \cup {"c"}}

DetectOpts ==
  {[DefaultOpts EXCEPT !.column = col, !.method = m] :
     col \in ColumnNames, m \in Methods}

Endpoints ==
  {"clean-dataset", "download-cleaned", "detect-outliers",
   "detect-missing", "detect-duplicates", "statistics"}

\* detect-missing and detect-duplicates take the file only
OptsFor(e) ==
  IF e = "detect-outliers" THEN DetectOpts
  ELSE IF e \in {"clean-dataset", "download-cleaned"} THEN CleanOpts
  ELSE IF e = "statistics" THEN StatisticsOpts
  ELSE {DefaultOpts}

\* the long datasets go to the endpoints that cut a list at 100
UploadsFor(e) ==
  IF e = "detect-duplicates" THEN Uploads \cup LongUploads ELSE Uploads

Request(e, u, o) == [endpoint |-> e, upload |-> u, opts |-> o]

NoRequest == [endpoint |-> "none", upload |-> [kind |-> "none", rows |-> <<>>], opts |-> DefaultOpts]

InitWith(r1, r2) ==
  /\ req = (1 :> r1) @@ (2 :> r2)
  /\ pc = [r \in Requests |-> IF req[r] = NoRequest THEN "absent" ELSE "start"]
  /\ df = [r \in Requests |-> NoFrame]
  /\ cleaned_df = [r \in Requests |-> NoFrame]
  /\ aliased = [r \in Requests |-> FALSE]
  /\ resp = [r \in Requests |-> NoResponse]
  /\ disk = [exists |-> FALSE, content |-> <<>>]
  /\ sent = [r \in Requests |-> NoResponse]

\* one request, any input
Init ==
  \E e \in Endpoints :
    \E u \in UploadsFor(e), o \in OptsFor(e) :
      InitWith(Request(e, u, o), NoRequest)

\* contents = await file.read(): the handler suspends here
ReadUpload(r) ==
  /\ pc[r] = "start"
  /\ pc' = [pc EXCEPT ![r] = "read"]
  /\ UNCHANGED <<req, df, cleaned_df, aliased, resp, disk, sent>>

\* what both cleaning handlers do up to the service call's return
CleanLoaded(loaded, o) ==
  IF loaded.err # ""
  THEN [err |-> loaded.err, out |-> <<>>, alias |-> FALSE, caller |-> NoFrame]
  ELSE IF loaded.none
  THEN [err |-> "InvalidFile", out |-> <<>>, alias |-> FALSE, caller |-> NoFrame]
  ELSE CleanDataset(loaded.val, o)

Cleaned(r) == CleanLoaded(LoadFile(req[r].upload), req[r].opts)

CleanBody_RemovedSignFlipped(d, cleaned) ==
  [success |-> TRUE,
   rows_before |-> Len(d),
   rows_after |-> Len(cleaned),
   rows_removed |-> Len(cleaned) - Len(d),
   data |-> ToRecords(cleaned)]

\* the JSON body of clean_dataset
CleanBody(d, cleaned) ==
  [success |-> TRUE,
   rows_before |-> Len(d),
   rows_after |-> Len(cleaned),
   rows_removed |-> Len(d) - Len(cleaned),
   data |-> ToRecords(cleaned)]

CleanDatasetReturn(r, c) ==
  /\ df' = [df EXCEPT ![r] = c.caller]
  /\ cleaned_df' = [cleaned_df EXCEPT ![r] = c.out]
  /\ aliased' = [aliased EXCEPT ![r] = c.alias]
  /\ resp' = [resp EXCEPT ![r] =
                IF c.err # "" THEN ClientError(c.err)
                ELSE Success(CleanBody(c.caller, c.out))]

\* POST /api/cleaning/clean-dataset, from the read to the return
CleanDatasetHandler(r) ==
  /\ pc[r] = "read"
  /\ req[r].endpoint = "clean-dataset"
  /\ CleanDatasetReturn(r, Cleaned(r))
  /\ pc' = [pc EXCEPT ![r] = "done"]
  /\ UNCHANGED <<req, disk, sent>>

DownloadCleanedReturn(r, c) ==
  /\ df' = [df EXCEPT ![r] = c.caller]
  /\ cleaned_df' = [cleaned_df EXCEPT ![r] = c.out]
  /\ aliased' = [aliased EXCEPT ![r] = c.alias]
  /\ IF c.err # ""
     THEN /\ resp' = [resp EXCEPT ![r] = ClientError(c.err)]
          /\ pc' = [pc EXCEPT ![r] = "done"]
          /\ disk' = disk
     ELSE /\ resp' = [resp EXCEPT ![r] = NoResponse]
          /\ pc' = [pc EXCEPT ![r] = "sending"]
          /\ disk' = [exists |-> TRUE, content |-> ToCsv(c.out)]

\* POST /api/cleaning/download-cleaned, from the read to the return: the
\* cleaned frame is written to cleaned_data.csv in the working directory and
\* a FileResponse naming that path is returned
DownloadCleanedHandler(r) ==
  /\ pc[r] = "read"
  /\ req[r].endpoint = "download-cleaned"
  /\ DownloadCleanedReturn(r, Cleaned(r))
  /\ UNCHANGED <<req, sent>>

\* the FileResponse is sent after the handler has returned: the body is what
\* cleaned_data.csv holds at that moment
SendFile(r) ==
  /\ pc[r] = "sending"
  /\ resp' = [resp EXCEPT ![r] = Success(disk.content)]
  /\ pc' = [pc EXCEPT ![r] = "done"]
  /\ UNCHANGED <<req, df, cleaned_df, aliased, disk, sent>>

DetectLoaded(loaded, o) ==
  IF loaded.err # "" THEN Raise(loaded.err, <<>>)
  ELSE IF loaded.none \/ o.column \notin Columns
  THEN Raise("InvalidFileOrColumn", <<>>)
  ELSE DetectOutliers(loaded.val, o.column, o.method)

DetectOutliersReturn(r, loaded, info) ==
  /\ df' = [df EXCEPT ![r] = loaded.val]
  /\ resp' = [resp EXCEPT ![r] =
                IF info.err # "" THEN ClientError(info.err)
                ELSE Success([success |-> TRUE, outlier_info |-> info.val])]

\* POST /api/cleaning/detect-outliers, from the read to the return
DetectOutliersHandler(r) ==
  /\ pc[r] = "read"
  /\ req[r].endpoint = "detect-outliers"
  /\ DetectOutliersReturn(r, LoadFile(req[r].upload),
                          DetectLoaded(LoadFile(req[r].upload), req[r].opts))
  /\ pc' = [pc EXCEPT ![r] = "done"]
  /\ UNCHANGED <<req, cleaned_df, aliased, disk, sent>>

\* what a handler that takes the file only answers: body carries the report
\* of the service call on the loaded frame
FileOnlyResponse(loaded, body) ==
  IF loaded.err # "" THEN ClientError(loaded.err)
  ELSE IF loaded.none THEN ClientError("InvalidFile")
  ELSE Success(body)

DetectMissingReturn(r, loaded) ==
  /\ df' = [df EXCEPT ![r] = loaded.val]
  /\ resp' = [resp EXCEPT ![r] =
                FileOnlyResponse(loaded,
                  [success |-> TRUE,
                   missing_info |-> DetectMissingValues(loaded.val)])]

\* POST /api/cleaning/detect-missing, from the read to the return
DetectMissingHandler(r) ==
  /\ pc[r] = "read"
  /\ req[r].endpoint = "detect-missing"
  /\ DetectMissingReturn(r, LoadFile(req[r].upload))
  /\ pc' = [pc EXCEPT ![r] = "done"]
  /\ UNCHANGED <<req, cleaned_df, aliased, disk, sent>>

DetectDuplicatesReturn(r, loaded) ==
  /\ df' = [df EXCEPT ![r] = loaded.val]
  /\ resp' = [resp EXCEPT ![r] =
                FileOnlyResponse(loaded,
                  [success |-> TRUE,
                   duplicate_info |-> DetectDuplicates(loaded.val)])]

\* POST /api/cleaning/detect-duplicates, from the read to the return
DetectDuplicatesHandler(r) ==
  /\ pc[r] = "read"
  /\ req[r].endpoint = "detect-duplicates"
  /\ DetectDuplicatesReturn(r, LoadFile(req[r].upload))
  /\ pc' = [pc EXCEPT ![r] = "done"]
  /\ UNCHANGED <<req, cleaned_df, aliased, disk, sent>>

StatisticsLoaded(loaded, o) ==
  IF loaded.err # "" THEN Raise(loaded.err, <<>>)
  ELSE IF loaded.none THEN Raise("InvalidFile", <<>>)
  ELSE IF Truthy(o.column) /\ o.column \notin Columns
  THEN Raise("ColumnNotFound", <<>>)
  ELSE CalculateStatistics(loaded.val, o.column)

GetStatisticsReturn(r, loaded, stats) ==
  /\ df' = [df EXCEPT ![r] = loaded.val]
  /\ resp' = [resp EXCEPT ![r] =
                IF stats.err # "" THEN ClientError(stats.err)
                ELSE Success([success |-> TRUE, statistics |-> stats.val])]

\* POST /api/statistics, from the read to the return
GetStatistics(r) ==
  /\ pc[r] = "read"
  /\ req[r].endpoint = "statistics"
  /\ GetStatisticsReturn(r, LoadFile(req[r].upload),
                         StatisticsLoaded(LoadFile(req[r].upload), req[r].opts))
  /\ pc' = [pc EXCEPT ![r] = "done"]
  /\ UNCHANGED <<req, cleaned_df, aliased, disk, sent>>

\* a NaN among the floats of a returned body, per endpoint
NaNInRecords(data) ==
  \E i \in 1..Len(data) : \E col \in Columns : IsNull(data[i][col])

NaNInOutlierInfo(info) ==
  \/ IsNull(info.outlier_percentage)
  \/ IsNull(info.lower_bound)
  \/ IsNull(info.upper_bound)

NaNInCurve(curve) == IsNull(curve.x.from) \/ IsNull(curve.x.to) \/ IsNull(curve.y)

NaNInNumeric(e) ==
  \/ \E f \in {"mean", "median", "std_dev", "variance", "min", "max",
               "q1", "q3", "iqr", "skewness", "kurtosis"} : IsNull(e[f])
  \/ IsNull(e.normal_distribution.mean)
  \/ IsNull(e.normal_distribution.std_dev)
  \/ NaNInCurve(e.normal_distribution.pdf_values)
  \/ NaNInCurve(e.normal_distribution.cdf_values)

NaNInStatistics(stats) ==
  \E col \in DOMAIN stats :
    /\ "type" \in DOMAIN stats[col]
    /\ stats[col].type = "numeric"
    /\ NaNInNumeric(stats[col])

ContainsNaN(e, body) ==
  IF e = "clean-dataset" THEN NaNInRecords(body.data)
  ELSE IF e = "detect-outliers" THEN NaNInOutlierInfo(body.outlier_info)
  ELSE IF e = "statistics" THEN NaNInStatistics(body.statistics)
  ELSE IF e = "detect-missing"
  THEN \E col \in DOMAIN body.missing_info.columns_with_missing :
         IsNull(body.missing_info.columns_with_missing[col].percentage)
  ELSE IsNull(body.duplicate_info.duplicate_percentage)

\* json.dumps(content, allow_nan=False) raised in JSONResponse.render: no
\* handler is left to catch it
ServerError == [status |-> 500, body |-> [detail |-> "Internal Server Error"]]

\* what the framework makes of what the handler left: an HTTPException is
\* answered with its status and detail, a FileResponse with the file's
\* bytes, a returned dict is rendered by JSONResponse
Rendered(e, left) ==
  IF left.status # 200 \/ e = "download-cleaned" THEN left
  ELSE IF ContainsNaN(e, left.body) THEN ServerError
  ELSE left

\* the response goes out after the handler has returned or raised
SendResponse(r) ==
  /\ pc[r] = "done"
  /\ sent[r] = NoResponse
  /\ sent' = [sent EXCEPT ![r] = Rendered(req[r].endpoint, resp[r])]
  /\ UNCHANGED <<req, pc, df, cleaned_df, aliased, resp, disk>>

Next ==
  \E r \in Requests :
    \/ ReadUpload(r)
    \/ CleanDatasetHandler(r)
    \/ DownloadCleanedHandler(r)
    \/ SendFile(r)
    \/ DetectOutliersHandler(r)
    \/ DetectMissingHandler(r)
    \/ DetectDuplicatesHandler(r)
    \/ GetStatistics(r)
    \/ SendResponse(r)

Spec == Init /\ [][Next]_vars

\* two requests in flight at once, each with a short upload
ConcDatasets == {rows \in FreeRows : Len(rows) <= 1}

ConcUploads ==
  {[kind |-> "csv", rows |-> d] : d \in ConcDatasets}
    \cup {[kind |-> "unsupported", rows |-> <<>>]}

ConcOptsFor(e) ==
  IF e = "detect-outliers"
  THEN {[DefaultOpts EXCEPT !.column = "x"]}
  ELSE IF e \in {"clean-dataset", "download-cleaned"}
  THEN {[DefaultOpts EXCEPT !.handle_missing = hm] : hm \in {"drop", "mean"}}
  ELSE {DefaultOpts}

ConcInit ==
  \E e1 \in Endpoints, u1 \in ConcUploads, e2 \in Endpoints, u2 \in ConcUploads :
    \E o1 \in ConcOptsFor(e1), o2 \in ConcOptsFor(e2) :
      InitWith(Request(e1, u1, o1), Request(e2, u2, o2))

ConcSpec == ConcInit /\ [][Next]_vars

\* ---------------------------------------------------------------- claims
\* the frame load_file gave the handler of r
Loaded(r) == LoadFile(req[r].upload).val

IsCleaning(r) == req[r].endpoint \in {"clean-dataset", "download-cleaned"}

\* clean_dataset has returned a frame to the handler of r
CleanReturned(r) ==
  /\ IsCleaning(r)
  /\ \/ pc[r] = "sending"
     \/ pc[r] = "done" /\ resp[r].status = 200

\* C1 (as claimed): under every interleaving the response of a request is
\* computed from that request's own upload and options only; in particular
\* the CSV a download-cleaned request delivers is the CSV of the frame its
\* own handler cleaned.
C1_ResponseFromOwnRequest ==
  \A r \in Requests :
    (pc[r] = "done" /\ req[r].endpoint = "download-cleaned" /\ resp[r].status = 200)
      => resp[r].body = ToCsv(cleaned_df[r])

\* C2: whenever clean-dataset succeeds, rows_before is the length of the
\* uploaded dataset, rows_after the length of the cleaned one (and of the
\* rows returned), and rows_removed = rows_before - rows_after >= 0.
C2_RowCounts ==
  \A r \in Requests :
    (pc[r] = "done" /\ req[r].endpoint = "clean-dataset" /\ resp[r].status = 200)
      => /\ resp[r].body.rows_before = Len(req[r].upload.rows)
         /\ resp[r].body.rows_after = Len(cleaned_df[r])
         /\ resp[r].body.rows_after = Len(resp[r].body.data)
         /\ resp[r].body.rows_removed
              = resp[r].body.rows_before - resp[r].body.rows_after
         /\ resp[r].body.rows_removed >= 0

\* a clean-dataset request where missing-value handling and outlier removal
\* both took rows and rows are left
C2_Witness ==
  \E r \in Requests :
    /\ pc[r] = "done" /\ req[r].endpoint = "clean-dataset" /\ resp[r].status = 200
    /\ req[r].opts.remove_outliers
    /\ Len(Stage1(Loaded(r), req[r].opts).cur) < resp[r].body.rows_before
    /\ resp[r].body.rows_after < Len(Stage2(Loaded(r), req[r].opts).cur)
    /\ resp[r].body.rows_after > 0
\* each stage of clean_dataset applied alone to a dataset
AfterMissing(d, o) == HandleMissing(Param(d), o.handle_missing).cur
AfterDuplicates(d, o) == RemoveDuplicates(Param(d), o.remove_duplicates).cur
AfterOutliers(d, o) ==
  RemoveOutliers(Param(d), o.remove_outliers, o.outlier_column, o.outlier_method).val.cur

Indices(d) == {d[i].idx : i \in 1..Len(d)}

\* C3: the frame clean_dataset returns is the outlier stage applied to the
\* duplicate stage applied to the missing-value stage applied to the upload:
\* duplicates are judged on the rows after missing-value handling (no two
\* returned rows are equal when duplicates are removed) and the outlier
\* thresholds come from the rows after stages 1 and 2.
C3_StageOrder ==
  \A r \in Requests :
    CleanReturned(r)
      => /\ cleaned_df[r]
              = AfterOutliers(AfterDuplicates(AfterMissing(Loaded(r), req[r].opts),
                                              req[r].opts), req[r].opts)
         /\ req[r].opts.remove_duplicates
              => \A i, j \in 1..Len(cleaned_df[r]) :
                   i # j => Cells(cleaned_df[r][i]) # Cells(cleaned_df[r][j])

\* a filled row was removed as a duplicate of an earlier row, and a row was
\* kept that thresholds computed on the upload itself would have removed
C3_Witness ==
  \E r \in Requests :
    /\ CleanReturned(r)
    /\ req[r].opts.handle_missing \in {"mean", "median"}
    /\ req[r].opts.remove_duplicates /\ req[r].opts.remove_outliers
    /\ req[r].opts.outlier_column = "x"
    /\ Len(AfterDuplicates(AfterMissing(Loaded(r), req[r].opts), req[r].opts))
         < Len(DropDuplicates(Loaded(r)))
    /\ Indices(cleaned_df[r]) \ Indices(AfterOutliers(Loaded(r), req[r].opts)) # {}
\* C4 (as claimed): the outlier stage removes exactly the rows that
\* detect_outliers flags on the same data (the rows after stages 1 and 2)
\* with the same method; rows with a null target value, values on a
\* threshold and the rows of a column of equal values are kept.
C4_RemovedAreFlagged ==
  \A r \in Requests :
    (/\ CleanReturned(r)
     /\ req[r].opts.remove_outliers
     /\ req[r].opts.outlier_column = "x"
     /\ req[r].opts.outlier_method \in {"zscore", "iqr"})
      => Indices(AfterDuplicates(AfterMissing(Loaded(r), req[r].opts), req[r].opts))
           \ Indices(cleaned_df[r])
         = {DetectOutliers(AfterDuplicates(AfterMissing(Loaded(r), req[r].opts),
                                           req[r].opts),
                           "x", req[r].opts.outlier_method).val.outlier_indices[k] :
              k \in 1..Len(DetectOutliers(
                              AfterDuplicates(AfterMissing(Loaded(r), req[r].opts),
                                              req[r].opts),
                              "x", req[r].opts.outlier_method).val.outlier_indices)}

ValidPolicies == {"drop", "mean", "median"}
ValidMethods == {"zscore", "iqr"}

\* the handler of r has gone past its service call
Handled(r) == pc[r] \in {"sending", "done"}

\* C5 (as claimed): clean with a missing-value policy other than drop, mean
\* or median fails with InvalidPolicy and returns no cleaned dataset.
C5_InvalidPolicyFails ==
  \A r \in Requests :
    (/\ IsCleaning(r) /\ Handled(r)
     /\ req[r].upload.kind = "csv"
     /\ req[r].opts.handle_missing \notin ValidPolicies)
      => /\ resp[r].status = 400
         /\ resp[r].body.detail = "InvalidPolicy"

\* C6 (as claimed): clean with outlier removal enabled and no target column
\* (None or empty), or a target column that is not in the dataset, fails
\* with a configuration error instead of skipping the outlier stage.
C6_MissingColumnFails ==
  \A r \in Requests :
    (/\ IsCleaning(r) /\ Handled(r)
     /\ req[r].upload.kind = "csv"
     /\ req[r].opts.remove_outliers
     /\ req[r].opts.outlier_column \notin Columns)
      => resp[r].status = 400

\* C7: an outlier method other than zscore or iqr fails with InvalidMethod
\* and yields no report and no cleaned dataset: in detect-outliers for every
\* dataset and existing column, and in clean whenever outlier removal is
\* enabled with a target column of the dataset.
C7_InvalidMethodFails ==
  \A r \in Requests :
    /\ (/\ req[r].endpoint = "detect-outliers" /\ pc[r] = "done"
        /\ req[r].upload.kind = "csv"
        /\ req[r].opts.column \in Columns
        /\ req[r].opts.method \notin ValidMethods)
         => resp[r] = ClientError("InvalidMethod")
    /\ (/\ IsCleaning(r) /\ Handled(r)
        /\ req[r].upload.kind = "csv"
        /\ req[r].opts.remove_outliers
        /\ req[r].opts.outlier_column \in Columns
        /\ req[r].opts.outlier_method \notin ValidMethods)
         => /\ pc[r] = "done"
            /\ resp[r] = ClientError("InvalidMethod")
            /\ ~disk.exists

\* detect-outliers refused an unknown method on a dataset whose target
\* column holds only nulls
C7_Witness ==
  \E r \in Requests :
    /\ req[r].endpoint = "detect-outliers" /\ pc[r] = "done"
    /\ req[r].opts.column = "x"
    /\ req[r].opts.method \notin ValidMethods
    /\ Len(df[r]) > 0
    /\ \A i \in 1..Len(df[r]) : IsNull(df[r][i].x)
    /\ resp[r] = ClientError("InvalidMethod")

\* C8: clean never mutates the caller's dataset: once the handler is past
\* the call, its frame df has the rows, index labels and cells load_file
\* gave it, also when clean raised, and a returned frame is another object.
C8_CallerUnchanged ==
  \A r \in Requests :
    (IsCleaning(r) /\ Handled(r) /\ req[r].upload.kind = "csv")
      => /\ df[r] = Loaded(r)
         /\ CleanReturned(r) => ~aliased[r]

\* a mean or median fill replaced a null in the returned frame and left it
\* in the caller's
C8_Witness ==
  \E r \in Requests :
    /\ CleanReturned(r)
    /\ req[r].opts.handle_missing \in {"mean", "median"}
    /\ \E i \in 1..Len(df[r]), j \in 1..Len(cleaned_df[r]) :
         /\ df[r][i].idx = cleaned_df[r][j].idx
         /\ IsNull(df[r][i].x)
         /\ ~IsNull(cleaned_df[r][j].x)

\* C9: dropping the rows with nulls from the result of dropping them gives
\* that result again, and so does removing duplicates from the result of
\* removing duplicates.
C9_Idempotent ==
  \A r \in Requests :
    (CleanReturned(r) /\ ~req[r].opts.remove_outliers)
      => /\ (req[r].opts.handle_missing = "drop" /\ ~req[r].opts.remove_duplicates)
              => /\ cleaned_df[r] = Dropna(Loaded(r))
                 /\ Dropna(cleaned_df[r]) = cleaned_df[r]
         /\ req[r].opts.remove_duplicates
              => /\ cleaned_df[r]
                      = DropDuplicates(AfterMissing(Loaded(r), req[r].opts))
                 /\ DropDuplicates(cleaned_df[r]) = cleaned_df[r]

\* the drop policy alone removed some rows of the upload and kept others
C9_Witness ==
  \E r \in Requests :
    /\ CleanReturned(r) /\ ~req[r].opts.remove_outliers
    /\ req[r].opts.handle_missing = "drop" /\ ~req[r].opts.remove_duplicates
    /\ Len(cleaned_df[r]) < Len(Loaded(r)) - 1
    /\ Len(cleaned_df[r]) > 0

\* the non-null values of column x of d are one or more copies of one value
SingleValued(d) ==
  /\ \E i \in 1..Len(d) : ~IsNull(d[i].x)
  /\ \A i, j \in 1..Len(d) :
       (~IsNull(d[i].x) /\ ~IsNull(d[j].x)) => d[i].x = d[j].x

\* C10: for a numeric column holding a single value detect-outliers reports
\* total_outliers = 0 and no index, under zscore and under iqr.
C10_SingleValueNoOutliers ==
  \A r \in Requests :
    (/\ req[r].endpoint = "detect-outliers" /\ pc[r] = "done"
     /\ req[r].upload.kind = "csv"
     /\ req[r].opts.column = "x"
     /\ req[r].opts.method \in ValidMethods
     /\ SingleValued(Loaded(r)))
      => /\ resp[r].status = 200
         /\ resp[r].body.outlier_info.total_outliers = 0
         /\ resp[r].body.outlier_info.outlier_indices = <<>>

\* a z-score report on a column of many equal values and a null
C10_Witness ==
  \E r \in Requests :
    /\ req[r].endpoint = "detect-outliers" /\ pc[r] = "done"
    /\ req[r].opts.column = "x" /\ req[r].opts.method = "zscore"
    /\ SingleValued(df[r])
    /\ Len(df[r]) > SmallPad
    /\ \E i \in 1..Len(df[r]) : IsNull(df[r][i].x)
    /\ resp[r].status = 200
    /\ resp[r].body.outlier_info.total_outliers = 0

\* the non-null values of column x of the upload of r
NonNullX(r) == SeriesDropna(Column(Loaded(r), "x"))

\* C11 (as claimed): detect-outliers on a column with zero non-null values
\* (an empty dataset or an all-null column) returns, under both methods, a
\* report with total_outliers = 0 and outlier_percentage = 0; in general
\* outlier_percentage is 100 * total_outliers / (number of non-null values)
\* and lies in [0, 100].
C11_EmptyColumnZeroPercent ==
  \A r \in Requests :
    (/\ req[r].endpoint = "detect-outliers" /\ pc[r] = "done"
     /\ req[r].upload.kind = "csv"
     /\ req[r].opts.column = "x"
     /\ req[r].opts.method \in ValidMethods)
      => /\ resp[r].status = 200
         /\ Len(NonNullX(r)) = 0
              => /\ resp[r].body.outlier_info.total_outliers = 0
                 /\ resp[r].body.outlier_info.outlier_percentage = RInt(0)
         /\ Len(NonNullX(r)) > 0
              => /\ resp[r].body.outlier_info.outlier_percentage
                      = Rat(100 * resp[r].body.outlier_info.total_outliers,
                            Len(NonNullX(r)))
                 /\ Ge(resp[r].body.outlier_info.outlier_percentage, RInt(0))
                 /\ Le(resp[r].body.outlier_info.outlier_percentage, RInt(100))

\* positions of the rows of d equal in full to an earlier row, and of the
\* rows equal in full to some other row
Repeats(d) == {i \in 1..Len(d) : \E j \in 1..(i - 1) : Cells(d[j]) = Cells(d[i])}
Grouped(d) == {i \in 1..Len(d) : \E j \in 1..Len(d) : j # i /\ Cells(d[j]) = Cells(d[i])}

DuplicatesDone(r) ==
  /\ req[r].endpoint = "detect-duplicates" /\ pc[r] = "done"
  /\ req[r].upload.kind = "csv"

\* C12: detect-duplicates, for every dataset: total_duplicates is the number
\* of rows equal in full to an earlier row; duplicate_percentage is
\* 100 * total_duplicates / rows, and 0 for zero rows; duplicate_indices
\* holds, in row order and cut to the first 100, the index of every row of a
\* group of two or more equal rows, the first occurrence included; with no
\* repeated row total_duplicates = 0 and duplicate_indices is empty.
C12_DuplicateReport ==
  \A r \in Requests :
    DuplicatesDone(r)
      => /\ resp[r].status = 200
         /\ resp[r].body.duplicate_info.total_duplicates
              = Cardinality(Repeats(Loaded(r)))
         /\ resp[r].body.duplicate_info.duplicate_percentage
              = IF Len(Loaded(r)) = 0 THEN RInt(0)
                ELSE Rat(100 * Cardinality(Repeats(Loaded(r))), Len(Loaded(r)))
         /\ Len(resp[r].body.duplicate_info.duplicate_indices)
              = IF Cardinality(Grouped(Loaded(r))) <= 100
                THEN Cardinality(Grouped(Loaded(r))) ELSE 100
         /\ \A k \in 1..Len(resp[r].body.duplicate_info.duplicate_indices) :
              /\ resp[r].body.duplicate_info.duplicate_indices[k] + 1
                   \in Grouped(Loaded(r))
              /\ Cardinality({i \in Grouped(Loaded(r)) :
                     i <= resp[r].body.duplicate_info.duplicate_indices[k] + 1}) = k
         /\ Repeats(Loaded(r)) = {}
              => /\ resp[r].body.duplicate_info.total_duplicates = 0
                 /\ resp[r].body.duplicate_info.duplicate_indices = <<>>

\* a report cut at 100 indices on a dataset with more rows in groups than
\* that and a row in no group
C12_Witness ==
  \E r \in Requests :
    /\ DuplicatesDone(r) /\ resp[r].status = 200
    /\ Cardinality(Grouped(df[r])) > 100
    /\ Len(resp[r].body.duplicate_info.duplicate_indices) = 100
    /\ resp[r].body.duplicate_info.total_duplicates >= 100
    /\ \E i \in 1..Len(df[r]) : i \notin Grouped(df[r])

\* number of null cells of column col of d
Nulls(d, col) == Cardinality({i \in 1..Len(d) : d[i][col] = NULL})

MissingDone(r) ==
  /\ req[r].endpoint = "detect-missing" /\ pc[r] = "done"
  /\ req[r].upload.kind = "csv"

\* C13: detect-missing, for every dataset: total_missing is the number of
\* null cells over all columns and the sum of the per-column counts
\* reported; total_cells = rows * columns; the per-column map has an entry
\* exactly for the columns with at least one null, with its null count and
\* its percentage of the row count; a dataset with no null (one with zero
\* rows included) gives total_missing = 0 and an empty map.
C13_MissingReport ==
  \A r \in Requests :
    MissingDone(r)
      => /\ resp[r].status = 200
         /\ resp[r].body.missing_info.total_missing
              = Nulls(Loaded(r), "x") + Nulls(Loaded(r), "c")
         /\ resp[r].body.missing_info.total_missing
              = (IF "x" \in DOMAIN resp[r].body.missing_info.columns_with_missing
                 THEN resp[r].body.missing_info.columns_with_missing["x"].count
                 ELSE 0)
                + (IF "c" \in DOMAIN resp[r].body.missing_info.columns_with_missing
                   THEN resp[r].body.missing_info.columns_with_missing["c"].count
                   ELSE 0)
         /\ resp[r].body.missing_info.total_cells = Len(Loaded(r)) * 2
         /\ DOMAIN resp[r].body.missing_info.columns_with_missing
              = {col \in {"x", "c"} : Nulls(Loaded(r), col) > 0}
         /\ \A col \in DOMAIN resp[r].body.missing_info.columns_with_missing :
              /\ resp[r].body.missing_info.columns_with_missing[col].count
                   = Nulls(Loaded(r), col)
              /\ resp[r].body.missing_info.columns_with_missing[col].percentage
                   = Rat(100 * Nulls(Loaded(r), col), Len(Loaded(r)))
         /\ (Nulls(Loaded(r), "x") = 0 /\ Nulls(Loaded(r), "c") = 0)
              => /\ resp[r].body.missing_info.total_missing = 0
                 /\ DOMAIN resp[r].body.missing_info.columns_with_missing = {}

\* a report with an entry for one column only, on a dataset where that
\* column's nulls are some but not all of its cells
C13_Witness ==
  \E r \in Requests :
    /\ MissingDone(r) /\ resp[r].status = 200
    /\ DOMAIN resp[r].body.missing_info.columns_with_missing = {"c"}
    /\ resp[r].body.missing_info.total_missing = 2
    /\ Len(df[r]) > 2

StatisticsDone(r) ==
  /\ req[r].endpoint = "statistics" /\ pc[r] = "done"
  /\ req[r].upload.kind = "csv"

\* column col of d is a numeric column with no non-null value: it has
\* cells and they are all null
EmptyNumeric(d, col) == Len(d) > 0 /\ \A i \in 1..Len(d) : d[i][col] = NULL

\* C14 (as claimed): statistics on a numeric column with no non-null values
\* returns the "No numeric data available" result for that column rather
\* than failing, both when the column is requested by name and when all
\* columns are summarised; the result then has one entry per column of the
\* dataset.
C14_NoNumericDataMarker ==
  \A r \in Requests : \A col \in {"x", "c"} :
    (StatisticsDone(r) /\ EmptyNumeric(Loaded(r), col))
      => /\ req[r].opts.column = col
              => /\ resp[r].status = 200
                 /\ DOMAIN resp[r].body.statistics = {col}
                 /\ resp[r].body.statistics[col]
                      = [error |-> "No numeric data available"]
         /\ req[r].opts.column \in {None, ""}
              => /\ resp[r].status = 200
                 /\ DOMAIN resp[r].body.statistics = {"x", "c"}
                 /\ resp[r].body.statistics[col]
                      = [error |-> "No numeric data available"]

\* the client of r has its response
Answered(r) == sent[r] # NoResponse

\* C15 (as claimed): every failure of a request is turned at the request
\* boundary into a client error with a message, and on every endpoint a
\* request ends either in a complete success response (the whole body the
\* handler returned) or in a client error, never in an unhandled failure
\* after the handler has returned.
C15_SuccessOrClientError ==
  \A r \in Requests :
    Answered(r)
      => /\ sent[r].status \in {200, 400}
         /\ sent[r].status = 400 => sent[r].body.detail # ""
         /\ sent[r].status = 200 => sent[r] = resp[r]
         /\ req[r].upload.kind \in {"unsupported", "unparseable"}
              => sent[r].status = 400
         /\ resp[r].status = 400 => sent[r] = resp[r]

\* C16 (as claimed): every numeric field of every success response is a
\* finite number: no statistics result, outlier report, missing or duplicate
\* report or cleaned row that a handler returns holds NaN, for any dataset.
C16_FiniteNumbers ==
  \A r \in Requests :
    (pc[r] = "done" /\ resp[r].status = 200
     /\ req[r].endpoint # "download-cleaned")
      => /\ req[r].endpoint = "clean-dataset"
              => \A i \in 1..Len(resp[r].body.data) :
                   resp[r].body.data[i].x # NULL
         /\ req[r].endpoint = "detect-outliers"
              => /\ resp[r].body.outlier_info.outlier_percentage # NULL
                 /\ resp[r].body.outlier_info.lower_bound # NULL
                 /\ resp[r].body.outlier_info.upper_bound # NULL
         /\ req[r].endpoint = "statistics"
              => \A col \in DOMAIN resp[r].body.statistics :
                   ("type" \in DOMAIN resp[r].body.statistics[col]
                      /\ resp[r].body.statistics[col].type = "numeric")
                     => /\ resp[r].body.statistics[col].std_dev # NULL
                        /\ resp[r].body.statistics[col].variance # NULL
                        /\ resp[r].body.statistics[col].skewness # NULL
                        /\ resp[r].body.statistics[col].kurtosis # NULL
                        /\ resp[r].body.statistics[col].normal_distribution.pdf_values.y # NULL
                        /\ resp[r].body.statistics[col].normal_distribution.cdf_values.y # NULL
         /\ req[r].endpoint = "detect-missing"
              => \A col \in DOMAIN resp[r].body.missing_info.columns_with_missing :
                   resp[r].body.missing_info.columns_with_missing[col].percentage # NULL
         /\ req[r].endpoint = "detect-duplicates"
              => resp[r].body.duplicate_info.duplicate_percentage # NULL

\* the non-null values of column x of d
XValues(d) == Values(SeriesDropna(Column(d, "x")))

\* clean_dataset returned to r after a mean or median fill and no other
\* stage
FillOnly(r) ==
  /\ CleanReturned(r)
  /\ req[r].opts.handle_missing \in {"mean", "median"}
  /\ ~req[r].opts.remove_duplicates /\ ~req[r].opts.remove_outliers

\* C17: missing-value handling with the mean or median policy removes no
\* row and changes no non-null cell: each null of the numeric column is
\* replaced by the mean (resp. median) of that column's non-null values in
\* the input to the stage (it stays null when there is none), and every cell
\* of the non-numeric column, nulls included, is left as it was.
C17_FillKeepsRowsAndCells ==
  \A r \in Requests :
    FillOnly(r)
      => /\ Len(cleaned_df[r]) = Len(Loaded(r))
         /\ \A i \in 1..Len(Loaded(r)) :
              /\ cleaned_df[r][i].idx = Loaded(r)[i].idx
              /\ cleaned_df[r][i].c = Loaded(r)[i].c
              /\ Loaded(r)[i].x # NULL => cleaned_df[r][i].x = Loaded(r)[i].x
              /\ (Loaded(r)[i].x = NULL /\ req[r].opts.handle_missing = "mean")
                   => cleaned_df[r][i].x
                        = IF XValues(Loaded(r)) = <<>> THEN NULL
                          ELSE Rat(RSum(XValues(Loaded(r)))[1],
                                   RSum(XValues(Loaded(r)))[2] * Len(XValues(Loaded(r))))
              /\ (Loaded(r)[i].x = NULL /\ req[r].opts.handle_missing = "median")
                   => cleaned_df[r][i].x = Median(XValues(Loaded(r)))

\* a fill put a value that is not 0 into a null of column x, in a dataset
\* with a null of column c that stayed
C17_Witness ==
  \E r \in Requests :
    /\ FillOnly(r)
    /\ \E i, j \in 1..Len(df[r]) :
         /\ IsNull(df[r][i].x)
         /\ cleaned_df[r][i].x \notin {NULL, RInt(0)}
         /\ IsNull(df[r][j].c) /\ IsNull(cleaned_df[r][j].c)

\* clean_dataset returned to r with outlier removal off
NoOutlierStage(r) == CleanReturned(r) /\ ~req[r].opts.remove_outliers

\* C18: duplicate removal, when enabled, keeps exactly the first occurrence
\* of each distinct full row of its input (the rows after missing-value
\* handling) and removes every later occurrence; the surviving rows keep
\* their relative order and their index values; when it is disabled the
\* stage removes no row.
C18_KeepFirstOccurrence ==
  \A r \in Requests :
    NoOutlierStage(r)
      => /\ req[r].opts.remove_duplicates
              => /\ \A i \in 1..Len(AfterMissing(Loaded(r), req[r].opts)) :
                      (\E k \in 1..Len(cleaned_df[r]) :
                         cleaned_df[r][k] = AfterMissing(Loaded(r), req[r].opts)[i])
                        <=> ~\E j \in 1..(i - 1) :
                              Cells(AfterMissing(Loaded(r), req[r].opts)[j])
                                = Cells(AfterMissing(Loaded(r), req[r].opts)[i])
                 /\ \A k \in 1..Len(cleaned_df[r]) :
                      \E i \in 1..Len(AfterMissing(Loaded(r), req[r].opts)) :
                        cleaned_df[r][k] = AfterMissing(Loaded(r), req[r].opts)[i]
                 /\ \A k, l \in 1..Len(cleaned_df[r]) :
                      k < l => cleaned_df[r][k].idx < cleaned_df[r][l].idx
         /\ ~req[r].opts.remove_duplicates
              => cleaned_df[r] = AfterMissing(Loaded(r), req[r].opts)

\* a later occurrence was removed while a different row between it and the
\* first occurrence was kept
C18_Witness ==
  \E r \in Requests :
    /\ NoOutlierStage(r) /\ req[r].opts.remove_duplicates
    /\ req[r].opts.handle_missing = "mean"
    /\ \E i, j, k \in 1..Len(df[r]) :
         /\ i < j /\ j < k
         /\ Cells(df[r][i]) = Cells(df[r][k])
         /\ Cells(df[r][i]) # Cells(df[r][j])
         /\ df[r][i].idx \in Indices(cleaned_df[r])
         /\ df[r][j].idx \in Indices(cleaned_df[r])
         /\ df[r][k].idx \notin Indices(cleaned_df[r])

====
